---- MODULE Spec2Model ----
(***************************************************************************)
(* Deal-flow backend: an Express application whose handlers delegate to    *)
(* an external store (Supabase tables business_ideas, webhook_logs,        *)
(* user_profiles), an identity provider, a mail relay and outbound HTTP.   *)
(*                                                                         *)
(* The repository holds three revisions of the server file: server.js,     *)
(* unnamed/part_000 (the earliest: mandatory mail transport, no external   *)
(* webhook routes) and unnamed/part_001 (the latest: bootstrapping profile *)
(* handler, null-safe admin check).  The variable rev fixes which one runs.*)
(*                                                                         *)
(* One action is one resumption of a handler: the outcome of the external  *)
(* call it awaited plus the synchronous code up to the next await or the   *)
(* response.  Requests of different clients interleave at the awaits.      *)
(***************************************************************************)
EXTENDS Integers, Sequences, FiniteSets, TLC

VARIABLES
    rev,          \* the revision of the server file that runs
    smtpEnv,      \* SMTP_HOST, SMTP_USER and SMTP_PASSWORD are all set
    webhookSecret,\* process.env.WEBHOOK_SECRET
    deals,        \* rows of business_ideas
    logs,         \* rows of webhook_logs, in insertion order
    profiles,     \* rows of user_profiles
    nextId,       \* next identifier the store generates for a deal
    now,          \* the store's clock
    reqs,         \* requests in flight
    nreq,         \* number of requests received so far
    resp,         \* the response this step sends (NoResp: none)
    mails,        \* ids of the requests for which the relay accepted a mail
    posts,        \* ids of the requests that made an outbound POST
    created,      \* history: deals answered 201 by POST /api/deals, untouched since
    delOk,        \* history: <<id, request>> of each DELETE answered with success
    puts,         \* history: the PUTs the store applied to a row, in that order
    racing        \* history: requests in flight together with one like them

vars == <<rev, smtpEnv, webhookSecret, deals, logs, profiles, nextId, now,
          reqs, nreq, resp, mails, posts, created, delOk, puts, racing>>

(***************************** bounds **************************************)
MaxReq == 2        \* requests received in one behaviour
MaxInFlight == 2   \* requests in flight at the same time

(************************** program constants ******************************)
LogLimit == 50     \* .limit(50) of GET /api/webhooks
BearerLen == 7     \* authHeader.substring(7)

Undefined == "undefined"   \* a missing header, body field or environment variable

(* JavaScript truthiness of a string-or-undefined value.                   *)
Truthy(s) == s # Undefined /\ s # ""

(* String.prototype.startsWith                                             *)
StartsWith(s, p) == Len(s) >= Len(p) /\ SubSeq(s, 1, Len(p)) = p

(* String.prototype.substring(n): the text from offset n to the end.       *)
Substring(s, n) == IF n >= Len(s) THEN "" ELSE SubSeq(s, n + 1, Len(s))

(* s.split('@')[0]: the text before the first '@', all of s without one.   *)
SplitAtHead(s) ==
    LET ats == {i \in 1..Len(s) : SubSeq(s, i, i) = "@"}
    IN  IF ats = {} THEN s
        ELSE SubSeq(s, 1, (CHOOSE i \in ats : \A j \in ats : i <= j) - 1)

(* The identity provider's users: id, email, user_metadata.full_name.      *)
(* User1 has no profile row at the start, User2 is the administrator,      *)
(* User3 has a profile whose role is not 'admin', User4 signed up without  *)
(* an email address (user.email is undefined) and has no profile row.      *)
User1 == [id |-> 1, email |-> "ann@x@y.io", full_name |-> ""]
User2 == [id |-> 2, email |-> "bo@z.io", full_name |-> "Bo"]
User3 == [id |-> 3, email |-> "cy", full_name |-> ""]
User4 == [id |-> 4, email |-> Undefined, full_name |-> ""]
NoUser == [id |-> 0, email |-> "", full_name |-> ""]

(* The identity provider's table: the user a token belongs to.             *)
TokenUser(tok) ==
    IF tok = "t1" THEN User1
    ELSE IF tok = "t2" THEN User2
    ELSE IF tok = "t3" THEN User3
    ELSE IF tok = "t4" THEN User4
    ELSE NoUser

(* Authorization headers a client sends to a route: none, a lower-case     *)
(* scheme, Bearer with an unknown token and with a known one.  Who the     *)
(* caller is decides only the two profile routes, which see every user.    *)
Headers(ep) ==
    {Undefined, "bearer t1", "Bearer bad", "Bearer t1"}
    \cup (IF ep \in {"GET /api/user/profile", "GET /api/users"}
          THEN {"Bearer t2", "Bearer t3"} ELSE {})
    \cup (IF ep = "GET /api/user/profile" THEN {"Bearer t4"} ELSE {})

(******************************* routes ************************************)
EpHealth == "GET /api/health"
EpDealsList == "GET /api/deals"
EpDealsCreate == "POST /api/deals"
EpDealsUpdate == "PUT /api/deals/:id"
EpDealsDelete == "DELETE /api/deals/:id"
EpSendOutreach == "POST /api/webhook/send-outreach"
EpGoogleForm == "POST /api/webhook/google-form"
EpOutreachExternal == "POST /api/webhook/outreach-external"
EpTriggerOutreach == "POST /api/webhook/trigger-outreach"
EpWebhooks == "GET /api/webhooks"
EpProfile == "GET /api/user/profile"
EpUsers == "GET /api/users"

(* The routes a revision registers with verifyAuth in front.               *)
Protected(r) ==
    {EpDealsList, EpDealsCreate, EpDealsUpdate, EpDealsDelete, EpSendOutreach,
     EpWebhooks, EpProfile, EpUsers}
    \cup (IF r = "part_000" THEN {} ELSE {EpTriggerOutreach})

(* The routes a revision registers.                                        *)
Routes(r) ==
    Protected(r) \cup {EpHealth, EpGoogleForm}
    \cup (IF r = "part_000" THEN {} ELSE {EpOutreachExternal})

(***************************** payloads ************************************)
EmptyBody == [f \in {} |-> ""]
Payload1 == [business_name |-> "Acme", contact_email |-> "a@x.com",
             industry |-> "retail", funding_amount_requested |-> "50000"]
Payload2 == [business_name |-> "Bolt", stage |-> "won", source |-> "manual"]
Patch1 == [stage |-> "contacted"]
Payloads == {Payload1, Payload2}
Patches == {Patch1, Payload2}

DealIds == {1, 2}          \* ids a client names: 1 exists at the start, 2 not yet
NoDeal == [id |-> 0, created_at |-> 0, f |-> EmptyBody]

(**************************** the store ************************************)
(* Outcome of one call to the store, the relay or a remote endpoint, as    *)
(* the client library reports it: a result, an error value, an exception.  *)
Outcomes == {"ok", "error", "throw"}

Ids(rows) == {d.id : d \in rows}

(* .eq('id', id) on a table.                                               *)
RowsById(rows, id) == {d \in rows : d.id = id}

(* update(body): the body's fields replace the row's, the others stay.     *)
Merge(f, body) ==
    [k \in DOMAIN f \cup DOMAIN body |-> IF k \in DOMAIN body THEN body[k] ELSE f[k]]

(* Sequences that list every row of a set once.                            *)
Listings(rows) ==
    {s \in [1..Cardinality(rows) -> rows] : \A i, j \in DOMAIN s : i # j => s[i] # s[j]}

(* .order('created_at', {ascending: false}): equal times in any order.     *)
ByCreatedDesc(rows) ==
    {s \in Listings(rows) : \A i, j \in DOMAIN s : i < j => s[i].created_at >= s[j].created_at}


(***************************** requests ************************************)
(* A request in flight: what the client sent, where its handler stands     *)
(* (pc), req.user, the deal the handler fetched, and history: the identity *)
(* provider's outcome (idp), whether next() ran the route handler, whether *)
(* the profile read met no row (noRow), the calls made with their outcomes.*)
NoReq == [rid |-> 0, ep |-> "", hdr |-> Undefined, id |-> 0, body |-> EmptyBody,
          url |-> FALSE, secret |-> Undefined, pc |-> "", user |-> NoUser,
          deal |-> NoDeal, idp |-> "", handler |-> FALSE, noRow |-> FALSE,
          calls |-> {}]

(* What a client sends to a route besides the Authorization header: a path *)
(* id or body dealId (0: none), a JSON body, whether the body names a      *)
(* webhookUrl, and the X-Webhook-Secret header.                            *)
Input(id, body, url, secret) == [id |-> id, body |-> body, url |-> url, secret |-> secret]

Inputs(ep) ==
    IF ep \in {EpDealsCreate, EpGoogleForm}
        THEN {Input(0, b, FALSE, Undefined) : b \in Payloads}
    ELSE IF ep = EpDealsUpdate
        THEN {Input(i, b, FALSE, Undefined) : i \in DealIds, b \in Patches}
    ELSE IF ep = EpDealsDelete
        THEN {Input(i, EmptyBody, FALSE, Undefined) : i \in DealIds}
    ELSE IF ep = EpSendOutreach
        THEN {Input(i, EmptyBody, FALSE, Undefined) : i \in DealIds}
    ELSE IF ep = EpTriggerOutreach
        THEN {Input(i, EmptyBody, u, Undefined) : i \in DealIds, u \in BOOLEAN}
    ELSE IF ep = EpOutreachExternal
        THEN {Input(i, EmptyBody, FALSE, s) : i \in {0, 1}, s \in {Undefined, "", "s3cret", "wrong"}}
    ELSE {Input(0, EmptyBody, FALSE, Undefined)}

NewReq(ep, hdr, in) ==
    [NoReq EXCEPT !.rid = nreq + 1, !.ep = ep, !.hdr = hdr, !.id = in.id,
                  !.body = in.body, !.url = in.url, !.secret = in.secret]

(* History: the request made call c and the callee's outcome was out.      *)
Called(r, c, out) == [r EXCEPT !.calls = @ \cup {<<c, out>>}]

NoResp == [req |-> NoReq, status |-> 0, kind |-> "none", body |-> ""]

(* res.status(status).json(body): the request leaves the server.           *)
Respond(r, status, kind, body) ==
    /\ reqs' = {q \in reqs : q.rid # r.rid}
    /\ resp' = [req |-> r, status |-> status, kind |-> kind, body |-> body]

(* The handler goes on to its next await; no response leaves in this step. *)
Continue(r) ==
    /\ reqs' = {q \in reqs : q.rid # r.rid} \cup {r}
    /\ resp' = NoResp

(* catch (error) { res.status(500).json({ error: error.message }) }        *)
Fail(r, msg) == Respond(r, 500, "error", msg)

CanReceive == nreq < MaxReq /\ Cardinality(reqs) < MaxInFlight

(* History: the requests in flight that ask the same of the same row as r, *)
(* that is the same route with the same credential and id.                 *)
Peers(r) == {q \in reqs : q.ep = r.ep /\ q.hdr = r.hdr /\ q.id = r.id}

(* History: r and its peers are marked once r's handler starts among them. *)
Race(r) ==
    racing' = IF Peers(r) = {} THEN racing
              ELSE racing \cup {r.rid} \cup {q.rid : q \in Peers(r)}

(****************************** verifyAuth *********************************)
(* !authHeader || !authHeader.startsWith('Bearer ')                        *)
NoBearer(hdr) == ~Truthy(hdr) \/ ~StartsWith(hdr, "Bearer ")

(* Mutant: only the provider's error is looked at, not the missing user.   *)
AuthRejectsNoUserCheck(out, user) == out = "error"

(* error || !user, on what supabase.auth.getUser returned                  *)
AuthRejects(out, user) == out = "error" \/ user = NoUser

(* A request arrives at a protected route and verifyAuth runs: the header  *)
(* check, then supabase.auth.getUser(token), which returns or throws; on a *)
(* user, next() hands the request to the route handler.  getUser touches   *)
(* nothing the other requests see, so the middleware is one step.          *)
VerifyAuth ==
    \E ep \in Protected(rev) :
    \E hdr \in Headers(ep), in \in Inputs(ep) :
        /\ CanReceive
        /\ nreq' = nreq + 1
        /\ LET r0 == NewReq(ep, hdr, in) IN
           IF NoBearer(hdr)
           THEN Respond(r0, 401, "error", "No token provided") /\ UNCHANGED racing
           ELSE \E out \in Outcomes :
                LET r == [Called(r0, "auth.getUser", out) EXCEPT !.idp = out]
                    token == Substring(r.hdr, BearerLen)
                    user == IF out = "ok" THEN TokenUser(token) ELSE NoUser
                IN  IF out = "throw"
                    THEN Respond(r, 401, "error", "Authentication failed")
                         /\ UNCHANGED racing
                    ELSE IF AuthRejects(out, user)
                    THEN Respond(r, 401, "error", "Invalid token") /\ UNCHANGED racing
                    ELSE /\ Continue([r EXCEPT !.user = user, !.handler = TRUE,
                                               !.pc = "handler"])
                         /\ Race(r)
        /\ UNCHANGED <<rev, smtpEnv, webhookSecret, deals, logs, profiles, nextId,
                       now, mails, posts, created, delOk, puts>>

(***************************** /api/deals **********************************)
(* Times the store's clock may show at the next insert.                    *)
Times == {now, now + 1}

(* GET /api/deals                                                          *)
GetDeals ==
    \E r0 \in reqs, out \in Outcomes :
        /\ r0.pc = "handler" /\ r0.ep = EpDealsList
        /\ LET r == Called(r0, "select business_ideas", out) IN
           IF out = "ok"
           THEN \E rows \in ByCreatedDesc(deals) : Respond(r, 200, "rows", rows)
           ELSE Fail(r, "store error")
        /\ UNCHANGED <<rev, smtpEnv, webhookSecret, deals, logs, profiles, nextId,
                       now, nreq, mails, posts, created, delOk, puts, racing>>

(* Mutant: the insert fills in a default stage over the payload's.         *)
InsertedDealDefaultStage(body, t) ==
    [id |-> nextId, created_at |-> t, f |-> Merge(body, [stage |-> "submitted"])]

(* insert([body]).select().single() on business_ideas                      *)
InsertedDeal(body, t) == [id |-> nextId, created_at |-> t, f |-> body]

(* POST /api/deals                                                         *)
CreateDeal ==
    \E r0 \in reqs, out \in Outcomes, t \in Times :
        /\ r0.pc = "handler" /\ r0.ep = EpDealsCreate
        /\ LET r == Called(r0, "insert business_ideas", out)
               row == InsertedDeal(r.body, t)
           IN  IF out = "ok"
               THEN /\ deals' = deals \cup {row}
                    /\ nextId' = nextId + 1
                    /\ now' = t
                    /\ created' = created \cup {row}
                    /\ Respond(r, 201, "row", row)
               ELSE /\ Fail(r, "store error")
                    /\ UNCHANGED <<deals, nextId, now, created>>
        /\ UNCHANGED <<rev, smtpEnv, webhookSecret, logs, profiles, nreq, mails,
                       posts, delOk, puts, racing>>

(* Mutant: the body replaces the row's fields instead of merging into them.*)
UpdatedDealsReplace(rows, id, body) ==
    {IF d.id = id THEN [d EXCEPT !.f = body] ELSE d : d \in rows}

(* update(body).eq('id', id) on business_ideas                             *)
UpdatedDeals(rows, id, body) ==
    {IF d.id = id THEN [d EXCEPT !.f = Merge(d.f, body)] ELSE d : d \in rows}

(* PUT /api/deals/:id ; .single() reports an error when no row matched.    *)
UpdateDeal ==
    \E r0 \in reqs, out \in Outcomes :
        /\ r0.pc = "handler" /\ r0.ep = EpDealsUpdate
        /\ LET r == Called(r0, "update business_ideas", out) IN
           IF out = "ok"
           THEN /\ deals' = UpdatedDeals(deals, r.id, r.body)
                /\ created' = {c \in created : c.id # r.id}
                /\ IF RowsById(deals, r.id) = {}
                   THEN Fail(r, "no rows returned") /\ UNCHANGED puts
                   ELSE /\ Respond(r, 200, "row", CHOOSE d \in deals' : d.id = r.id)
                        /\ puts' = Append(puts, [rid |-> r.rid, id |-> r.id,
                                                 body |-> r.body])
           ELSE /\ Fail(r, "store error")
                /\ UNCHANGED <<deals, created, puts>>
        /\ UNCHANGED <<rev, smtpEnv, webhookSecret, logs, profiles, nextId, now,
                       nreq, mails, posts, delOk, racing>>

(* Mutant: a delete that matches no row loses the filter.                  *)
DeletedDealsUnfiltered(rows, id) ==
    IF RowsById(rows, id) = {} THEN {} ELSE rows \ RowsById(rows, id)

(* delete().eq('id', id) on business_ideas                                 *)
DeletedDeals(rows, id) == rows \ RowsById(rows, id)

DeletedMessage == "Deal deleted successfully"

(* DELETE /api/deals/:id                                                   *)
DeleteDeal ==
    \E r0 \in reqs, out \in Outcomes :
        /\ r0.pc = "handler" /\ r0.ep = EpDealsDelete
        /\ LET r == Called(r0, "delete business_ideas", out) IN
           IF out = "ok"
           THEN /\ deals' = DeletedDeals(deals, r.id)
                /\ created' = {c \in created : c.id # r.id}
                /\ delOk' = delOk \cup {<<r.id, r.rid>>}
                /\ Respond(r, 200, "message", DeletedMessage)
           ELSE /\ Fail(r, "store error")
                /\ UNCHANGED <<deals, created, delOk, puts, racing>>
        /\ UNCHANGED <<rev, smtpEnv, webhookSecret, logs, profiles, nextId, now,
                       nreq, mails, posts, puts, racing>>


(*************************** webhook_logs **********************************)
(* insert([{business_idea_id, action, triggered_by, status}]) on           *)
(* webhook_logs; the store fills id and triggered_at.  rid is history: the *)
(* request that wrote the row (0: it was there from the start).            *)
LogRow(dealId, action, by, t, rid) ==
    [id |-> Len(logs) + 1, business_idea_id |-> dealId, action |-> action,
     triggered_by |-> by, status |-> "success", triggered_at |-> t, rid |-> rid]

(* Mutant: an upsert on the deal id, which replaces the deal's older rows. *)
LogInsertUpsert(out, row) ==
    IF out = "ok"
    THEN /\ logs' = Append(SelectSeq(logs, LAMBDA l : l.business_idea_id # row.business_idea_id),
                           row)
         /\ now' = row.triggered_at
    ELSE UNCHANGED <<logs, now>>

(* A log insert whose result the handler does not look at: the row is      *)
(* there on "ok", missing on an error value.                               *)
LogInsert(out, row) ==
    IF out = "ok"
    THEN logs' = Append(logs, row) /\ now' = row.triggered_at
    ELSE UNCHANGED <<logs, now>>

(* process.env.SMTP_* decide the transporter, except in the earliest       *)
(* revision, which always builds one.                                      *)
Transporter == IF rev = "part_000" THEN TRUE ELSE smtpEnv

(* if (!transporter) return res.status(503)  -- absent from part_000       *)
MailUnavailable == rev # "part_000" /\ ~Transporter

(* Mutant: the row is used although the fetch reported an error.           *)
FetchDealIgnoringError(out, id) ==
    IF out # "throw" /\ RowsById(deals, id) # {}
    THEN CHOOSE d \in deals : d.id = id
    ELSE NoDeal

(* select('*').eq('id', dealId).single() on business_ideas, shared by the  *)
(* two outreach handlers: the row, or NoDeal with an error.                *)
FetchDeal(out, id) ==
    IF out = "ok" /\ RowsById(deals, id) # {}
    THEN CHOOSE d \in deals : d.id = id
    ELSE NoDeal

(* POST /api/webhook/send-outreach: transporter check and deal fetch.      *)
SendOutreachFetch ==
    \E r0 \in reqs, out \in Outcomes :
        /\ r0.pc = "handler" /\ r0.ep = EpSendOutreach
        /\ IF MailUnavailable
           THEN Respond(r0, 503, "error",
                        "Email service not configured. Use external webhook instead.")
           ELSE LET r == Called(r0, "select business_ideas", out)
                    deal == FetchDeal(out, r.id)
                IN  IF deal = NoDeal
                    THEN Fail(r, "deal fetch error")
                    ELSE Continue([r EXCEPT !.deal = deal, !.pc = "mail"])
        /\ UNCHANGED <<rev, smtpEnv, webhookSecret, deals, logs, profiles, nextId,
                       now, nreq, mails, posts, created, delOk, puts, racing>>

(* Outcomes of transporter.sendMail: it rejects a mail without recipient.  *)
MailOutcomes(deal) ==
    IF "contact_email" \in DOMAIN deal.f THEN {"ok", "throw"} ELSE {"throw"}

(* POST /api/webhook/send-outreach: transporter.sendMail returns.          *)
SendOutreachMail ==
    \E r0 \in reqs :
    \E out \in MailOutcomes(r0.deal) :
        /\ r0.pc = "mail" /\ r0.ep = EpSendOutreach
        /\ LET r == Called(r0, "sendMail", out) IN
           IF out = "ok"
           THEN mails' = mails \cup {r.rid} /\ Continue([r EXCEPT !.pc = "log"])
           ELSE UNCHANGED mails /\ Fail(r, "mail error")
        /\ UNCHANGED <<rev, smtpEnv, webhookSecret, deals, logs, profiles, nextId,
                       now, nreq, posts, created, delOk, puts, racing>>

(* POST /api/webhook/send-outreach: the log insert returns.                *)
SendOutreachLog ==
    \E r0 \in reqs, out \in Outcomes, t \in Times :
        /\ r0.pc = "log" /\ r0.ep = EpSendOutreach
        /\ LET r == Called(r0, "insert webhook_logs", out) IN
           IF out = "throw"
           THEN Fail(r, "store error") /\ UNCHANGED <<logs, now>>
           ELSE /\ LogInsert(out, LogRow(r.id, "send_outreach", r.user.email, t, r.rid))
                /\ Respond(r, 200, "message", "Outreach email sent successfully")
        /\ UNCHANGED <<rev, smtpEnv, webhookSecret, deals, profiles, nextId, nreq,
                       mails, posts, created, delOk, puts, racing>>

(* Mutant: the spread comes last, so the payload's own values win.         *)
FormBodyPayloadWins(body) == Merge([source |-> "google_form", stage |-> "submitted"], body)

(* { ...req.body, source: 'google_form', stage: 'submitted' }              *)
FormBody(body) == Merge(body, [source |-> "google_form", stage |-> "submitted"])

(* POST /api/webhook/google-form arrives; the deal insert returns.         *)
GoogleFormInsert ==
    \E in \in Inputs(EpGoogleForm), out \in Outcomes, t \in Times :
        /\ CanReceive
        /\ nreq' = nreq + 1
        /\ LET r == Called([NewReq(EpGoogleForm, Undefined, in) EXCEPT !.handler = TRUE],
                           "insert business_ideas", out)
               row == InsertedDeal(FormBody(r.body), t)
           IN  IF out = "ok"
               THEN /\ deals' = deals \cup {row}
                    /\ nextId' = nextId + 1
                    /\ now' = t
                    /\ Continue([r EXCEPT !.deal = row, !.pc = "log"])
               ELSE /\ Fail(r, "store error")
                    /\ UNCHANGED <<deals, nextId, now>>
        /\ UNCHANGED <<rev, smtpEnv, webhookSecret, logs, profiles, mails, posts,
                       created, delOk, puts, racing>>

(* POST /api/webhook/google-form: the log insert returns.                  *)
GoogleFormLog ==
    \E r0 \in reqs, out \in Outcomes, t \in Times :
        /\ r0.pc = "log" /\ r0.ep = EpGoogleForm
        /\ LET r == Called(r0, "insert webhook_logs", out) IN
           IF out = "throw"
           THEN Fail(r, "store error") /\ UNCHANGED <<logs, now>>
           ELSE /\ LogInsert(out, LogRow(r.deal.id, "form_submission", "google_form", t, r.rid))
                /\ Respond(r, 201, "form", r.deal)
        /\ UNCHANGED <<rev, smtpEnv, webhookSecret, deals, profiles, nextId, nreq,
                       mails, posts, created, delOk, puts, racing>>

(* Mutant: a request without the header is let through.                    *)
SecretRejectsOnlyPresent(env, secret) == Truthy(env) /\ Truthy(secret) /\ secret # env

(* if (process.env.WEBHOOK_SECRET) { if (secret !== it) return 401 }       *)
SecretRejects(env, secret) == Truthy(env) /\ secret # env

(* POST /api/webhook/outreach-external arrives; the secret check and the   *)
(* log insert.  business_idea_id is dealId || null (0).                    *)
OutreachExternal ==
    \E in \in Inputs(EpOutreachExternal), out \in Outcomes, t \in Times :
        /\ CanReceive
        /\ EpOutreachExternal \in Routes(rev)
        /\ nreq' = nreq + 1
        /\ LET r0 == [NewReq(EpOutreachExternal, Undefined, in) EXCEPT !.handler = TRUE] IN
           IF SecretRejects(webhookSecret, r0.secret)
           THEN Respond(r0, 401, "error", "Unauthorized") /\ UNCHANGED <<logs, now>>
           ELSE LET r == Called(r0, "insert webhook_logs", out) IN
                IF out = "throw"
                THEN Fail(r, "store error") /\ UNCHANGED <<logs, now>>
                ELSE /\ LogInsert(out, LogRow(r.id, "outreach_external", "make_com_or_ghl", t, r.rid))
                     /\ Respond(r, 200, "echo", r.id)
        /\ UNCHANGED <<rev, smtpEnv, webhookSecret, deals, profiles, nextId, mails,
                       posts, created, delOk, puts, racing>>

(* POST /api/webhook/trigger-outreach: the deal fetch returns.             *)
TriggerOutreachFetch ==
    \E r0 \in reqs, out \in Outcomes :
        /\ r0.pc = "handler" /\ r0.ep = EpTriggerOutreach
        /\ LET r == Called(r0, "select business_ideas", out)
               deal == FetchDeal(out, r.id)
           IN  IF deal = NoDeal
               THEN Fail(r, "deal fetch error")
               ELSE Continue([r EXCEPT !.deal = deal,
                                       !.pc = IF r.url THEN "post" ELSE "log"])
        /\ UNCHANGED <<rev, smtpEnv, webhookSecret, deals, logs, profiles, nextId,
                       now, nreq, mails, posts, created, delOk, puts, racing>>

(* Mutant: the status of the remote side's answer is not looked at.        *)
ResponseOkUnchecked(out) == out # "throw"

(* response.ok of the answer fetch resolved with: a 2xx status.            *)
ResponseOk(out) == out = "ok"

(* POST /api/webhook/trigger-outreach: fetch(webhookUrl) returns a 2xx     *)
(* ("ok"), another status ("error": !response.ok) or throws.               *)
TriggerOutreachPost ==
    \E r0 \in reqs, out \in Outcomes :
        /\ r0.pc = "post" /\ r0.ep = EpTriggerOutreach
        /\ posts' = posts \cup {r0.rid}
        /\ LET r == Called(r0, "fetch", out) IN
           IF ResponseOk(out)
           THEN Continue([r EXCEPT !.pc = "log"])
           ELSE Fail(r, "Webhook failed")
        /\ UNCHANGED <<rev, smtpEnv, webhookSecret, deals, logs, profiles, nextId,
                       now, nreq, mails, created, delOk, puts, racing>>

(* POST /api/webhook/trigger-outreach: the log insert returns.             *)
TriggerOutreachLog ==
    \E r0 \in reqs, out \in Outcomes, t \in Times :
        /\ r0.pc = "log" /\ r0.ep = EpTriggerOutreach
        /\ LET r == Called(r0, "insert webhook_logs", out) IN
           IF out = "throw"
           THEN Fail(r, "store error") /\ UNCHANGED <<logs, now>>
           ELSE /\ LogInsert(out, LogRow(r.id, "trigger_outreach", r.user.email, t, r.rid))
                /\ Respond(r, 200, "triggered", r.deal.id)
        /\ UNCHANGED <<rev, smtpEnv, webhookSecret, deals, profiles, nextId, nreq,
                       mails, posts, created, delOk, puts, racing>>


(*************************** GET /api/webhooks *****************************)
Min(a, b) == IF a < b THEN a ELSE b

(* Row a comes before row b under .order('triggered_at', {ascending:       *)
(* false}); the store breaks a tie of times either way (tb).               *)
LogBefore(a, b, tb) ==
    \/ a.triggered_at > b.triggered_at
    \/ /\ a.triggered_at = b.triggered_at
       /\ IF tb = "asc" THEN a.id < b.id ELSE a.id > b.id

(* The rows of a table in that order.                                      *)
OrderLogs(rows, tb) ==
    LET n == Len(rows)
        rank == [j \in 1..n |-> Cardinality({k \in 1..n : LogBefore(rows[k], rows[j], tb)})]
    IN  [i \in 1..n |-> rows[CHOOSE j \in 1..n : rank[j] = i - 1]]

(* Mutant: the limit is not applied.                                       *)
LimitNone(s, k) == s

(* .limit(k)                                                               *)
Limit(s, k) == SubSeq(s, 1, Min(k, Len(s)))

(* select of the row with the embedded business_ideas row it references.   *)
Joined(l) ==
    [log |-> l,
     business_ideas |-> IF RowsById(deals, l.business_idea_id) = {} THEN NoDeal
                        ELSE CHOOSE d \in deals : d.id = l.business_idea_id]

WebhookPage(rows, tb) ==
    LET page == Limit(OrderLogs(rows, tb), LogLimit)
    IN  [i \in 1..Len(page) |-> Joined(page[i])]

(* GET /api/webhooks                                                       *)
GetWebhooks ==
    \E r0 \in reqs, out \in Outcomes, tb \in {"asc", "desc"} :
        /\ r0.pc = "handler" /\ r0.ep = EpWebhooks
        /\ LET r == Called(r0, "select webhook_logs", out) IN
           IF out = "ok"
           THEN Respond(r, 200, "logs", WebhookPage(logs, tb))
           ELSE Fail(r, "store error")
        /\ UNCHANGED <<rev, smtpEnv, webhookSecret, deals, logs, profiles, nextId,
                       now, nreq, mails, posts, created, delOk, puts, racing>>

(**************************** user_profiles ********************************)
NoProfile == [id |-> 0, username |-> "", email |-> "", role |-> "", full_name |-> ""]

(* select(...).eq('id', uid).single() on user_profiles: the row, or null   *)
(* (NoProfile) with an error when the call fails or no row matches.        *)
FetchProfile(out, uid) ==
    IF out = "ok" /\ RowsById(profiles, uid) # {}
    THEN CHOOSE q \in profiles : q.id = uid
    ELSE NoProfile

(* newProfile of the bootstrapping handler; full_name || null is "".       *)
NewProfile(user) ==
    [id |-> user.id, username |-> SplitAtHead(user.email), email |-> user.email,
     role |-> "user", full_name |-> user.full_name]

(* The body of the handler's catch branch: no full_name.                   *)
FallbackProfile(user) ==
    [id |-> user.id, username |-> SplitAtHead(user.email), email |-> user.email,
     role |-> "user"]

(* req.user.email.split('@') throws a TypeError when the user has no       *)
(* email; part_001 evaluates it for newProfile and again inside its catch  *)
(* branch, from where the error leaves the handler.                        *)
SplitThrows(user) == user.email = Undefined

(* The handler's promise rejects with nobody to catch it: no response is   *)
(* sent on this request.                                                   *)
Unhandled(r) == Continue([r EXCEPT !.pc = "unhandled"])

(* GET /api/user/profile: the profile read returns.  server.js and         *)
(* part_000 answer the row or 500; part_001 goes on to create a profile.   *)
GetProfile ==
    \E r0 \in reqs, out \in Outcomes :
        /\ r0.pc = "handler" /\ r0.ep = EpProfile
        /\ LET r == [Called(r0, "select user_profiles", out)
                        EXCEPT !.noRow = (RowsById(profiles, r0.user.id) = {})]
               data == FetchProfile(out, r.user.id)
           IN  IF rev = "part_001"
               THEN IF out # "throw" /\ data # NoProfile
                    THEN Respond(r, 200, "profile", data)
                    ELSE IF SplitThrows(r.user)
                    THEN Unhandled(r)
                    ELSE IF out = "throw"
                    THEN Respond(r, 200, "profile", FallbackProfile(r.user))
                    ELSE Continue([r EXCEPT !.pc = "insert"])
               ELSE IF data # NoProfile
                    THEN Respond(r, 200, "profile", data)
                    ELSE Fail(r, "profile read error")
        /\ UNCHANGED <<rev, smtpEnv, webhookSecret, deals, logs, profiles, nextId,
                       now, nreq, mails, posts, created, delOk, puts, racing>>

(* GET /api/user/profile of part_001: the insert of newProfile returns;    *)
(* the store refuses a second row with the same id.                        *)
GetProfileInsert ==
    \E r0 \in reqs, out \in Outcomes :
        /\ r0.pc = "insert" /\ r0.ep = EpProfile
        /\ LET r == Called(r0, "insert user_profiles", out)
               new == NewProfile(r.user)
           IN  IF out = "throw"
               THEN Respond(r, 200, "profile", FallbackProfile(r.user)) /\ UNCHANGED profiles
               ELSE IF out = "ok" /\ RowsById(profiles, new.id) = {}
               THEN profiles' = profiles \cup {new} /\ Respond(r, 200, "profile", new)
               ELSE Respond(r, 200, "profile", new) /\ UNCHANGED profiles
        /\ UNCHANGED <<rev, smtpEnv, webhookSecret, deals, logs, nextId, now, nreq,
                       mails, posts, created, delOk, puts, racing>>

(* The order of .order('username') on the characters usernames use.        *)
Alphabet == "abcdefghijklmnopqrstuvwxyz"
CharRank(c) ==
    IF \E i \in 1..Len(Alphabet) : SubSeq(Alphabet, i, i) = c
    THEN CHOOSE i \in 1..Len(Alphabet) : SubSeq(Alphabet, i, i) = c
    ELSE 0

RECURSIVE StrLess(_, _)
StrLess(a, b) ==
    IF b = "" THEN FALSE
    ELSE IF a = "" THEN TRUE
    ELSE LET ca == CharRank(SubSeq(a, 1, 1))
             cb == CharRank(SubSeq(b, 1, 1))
         IN  IF ca # cb THEN ca < cb
             ELSE StrLess(Substring(a, 1), Substring(b, 1))

(* select('*').order('username') on user_profiles                          *)
ByUsername(rows) ==
    {s \in Listings(rows) :
        \A i, j \in DOMAIN s : i < j => ~StrLess(s[j].username, s[i].username)}

(* The admin check of GET /api/users on the profile read (null: NoProfile):*)
(* "forbidden", "allowed", or "crash" where profile.role is read off null, *)
(* which only part_001 guards with !profile.                               *)
AdminCheck(r, profile) ==
    IF profile = NoProfile
    THEN IF r = "part_001" THEN "forbidden" ELSE "crash"
    ELSE IF profile.role # "admin" THEN "forbidden" ELSE "allowed"

(* GET /api/users: the role read returns; its error value is not looked at.*)
GetUsers ==
    \E r0 \in reqs, out \in Outcomes :
        /\ r0.pc = "handler" /\ r0.ep = EpUsers
        /\ LET r == Called(r0, "select user_profiles", out)
               check == AdminCheck(rev, FetchProfile(out, r.user.id))
           IN  IF out = "throw" THEN Fail(r, "store error")
               ELSE IF check = "crash"
               THEN Fail(r, "Cannot read properties of null (reading 'role')")
               ELSE IF check = "forbidden"
               THEN Respond(r, 403, "error", "Admin access required")
               ELSE Continue([r EXCEPT !.pc = "list"])
        /\ UNCHANGED <<rev, smtpEnv, webhookSecret, deals, logs, profiles, nextId,
                       now, nreq, mails, posts, created, delOk, puts, racing>>

(* GET /api/users: the listing returns.                                    *)
GetUsersList ==
    \E r0 \in reqs, out \in Outcomes :
        /\ r0.pc = "list" /\ r0.ep = EpUsers
        /\ LET r == Called(r0, "select user_profiles *", out) IN
           IF out = "ok"
           THEN \E rows \in ByUsername(profiles) : Respond(r, 200, "profiles", rows)
           ELSE Fail(r, "store error")
        /\ UNCHANGED <<rev, smtpEnv, webhookSecret, deals, logs, profiles, nextId,
                       now, nreq, mails, posts, created, delOk, puts, racing>>

(* GET /api/health                                                         *)
Health ==
    /\ CanReceive
    /\ nreq' = nreq + 1
    /\ Respond([NewReq(EpHealth, Undefined, Input(0, EmptyBody, FALSE, Undefined))
                    EXCEPT !.handler = TRUE], 200, "health", "ok")
    /\ UNCHANGED <<rev, smtpEnv, webhookSecret, deals, logs, profiles, nextId, now,
                   mails, posts, created, delOk, puts, racing>>

(***************************** initial state *******************************)
(* The environments the server is started in: every revision with and     *)
(* without the SMTP variables; WEBHOOK_SECRET unset, empty and set for the *)
(* revisions that read it.                                                 *)
Config(r, smtp, secret) == [rev |-> r, smtp |-> smtp, secret |-> secret]

Configs ==
    {Config("server.js", FALSE, Undefined), Config("server.js", TRUE, "s3cret"),
     Config("part_000", FALSE, Undefined), Config("part_000", TRUE, Undefined),
     Config("part_001", FALSE, "s3cret"), Config("part_001", TRUE, "")}

Deal1 == [id |-> 1, created_at |-> 0, f |-> Payload1]

AdminProfile == [id |-> 2, username |-> "bo", email |-> "bo@z.io",
                 role |-> "admin", full_name |-> "Bo"]
OddProfile == [id |-> 3, username |-> "cy", email |-> "cy",
               role |-> "Admin", full_name |-> ""]

(* A log table that already holds a full page, two rows to each time.      *)
FullLog ==
    [i \in 1..LogLimit |->
        [id |-> i, business_idea_id |-> IF i % 2 = 0 THEN 1 ELSE 0,
         action |-> "outreach_external", triggered_by |-> "make_com_or_ghl",
         status |-> "success", triggered_at |-> (i + 1) \div 2, rid |-> 0]]

LastTime(rows) == IF rows = <<>> THEN 0 ELSE rows[Len(rows)].triggered_at

(* The log table is empty at the start or, under one configuration, holds  *)
(* a full page already.                                                    *)
InitLogs(c) ==
    IF c = Config("server.js", TRUE, "s3cret") THEN {<<>>, FullLog} ELSE {<<>>}

Init ==
    /\ \E c \in Configs :
        /\ rev = c.rev
        /\ smtpEnv = c.smtp
        /\ webhookSecret = c.secret
        /\ logs \in InitLogs(c)
    /\ deals = {Deal1}
    /\ profiles = {AdminProfile, OddProfile}
    /\ nextId = 2
    /\ now = LastTime(logs)
    /\ reqs = {}
    /\ nreq = 0
    /\ resp = NoResp
    /\ mails = {}
    /\ posts = {}
    /\ created = {}
    /\ delOk = {}
    /\ puts = <<>>
    /\ racing = {}

Next ==
    \/ VerifyAuth
    \/ GetDeals
    \/ CreateDeal
    \/ UpdateDeal
    \/ DeleteDeal
    \/ SendOutreachFetch
    \/ SendOutreachMail
    \/ SendOutreachLog
    \/ GoogleFormInsert
    \/ GoogleFormLog
    \/ OutreachExternal
    \/ TriggerOutreachFetch
    \/ TriggerOutreachPost
    \/ TriggerOutreachLog
    \/ GetWebhooks
    \/ GetProfile
    \/ GetProfileInsert
    \/ GetUsers
    \/ GetUsersList
    \/ Health

Spec == Init /\ [][Next]_vars


(***************************************************************************)
(*                              Properties                                 *)
(***************************************************************************)
Answered == resp.status # 0

(* A store, relay or remote call of the request failed of itself.          *)
Faulty(q) == \E c \in q.calls : c[1] # "auth.getUser" /\ c[2] # "ok"

LogsOf(rid) == {i \in DOMAIN logs : logs[i].rid = rid}

(* The request carries no usable credential: no header, no 'Bearer '       *)
(* prefix, or a token the identity provider fails on or knows no user for. *)
BadCredential(q) ==
    \/ q.hdr = Undefined
    \/ Len(q.hdr) < BearerLen
    \/ SubSeq(q.hdr, 1, BearerLen) # "Bearer "
    \/ q.idp \in {"error", "throw"}
    \/ q.idp = "ok" /\ q.hdr = "Bearer bad"

(* The request carries a token the identity provider resolved to a user.   *)
Authenticated(q) == ~BadCredential(q)

(* State part of C1: who is in flight behind verifyAuth, what a rejected   *)
(* request was answered and what it called.                                *)
C1_Rejected ==
    /\ \A q \in reqs : q.ep \in Protected(rev) => ~BadCredential(q) /\ q.idp = "ok"
    /\ (Answered /\ resp.req.ep \in Protected(rev) /\ BadCredential(resp.req)) =>
          /\ resp.status = 401
          /\ resp.kind = "error"
          /\ ~resp.req.handler
          /\ resp.req.calls \subseteq {<<"auth.getUser", resp.req.idp>>}
          /\ LogsOf(resp.req.rid) = {}
          /\ resp.req.rid \notin mails \cup posts

(* Step part of C1: the step that rejects a request changes no table.      *)
C1_NoEffect ==
    (resp'.status # 0 /\ resp'.req.ep \in Protected(rev) /\ BadCredential(resp'.req))
        => UNCHANGED <<deals, logs, profiles, mails, posts, nextId>>

(* C1: a request to a bearer-protected route without a usable credential   *)
(* is answered 401, its route handler never runs (no such request is ever  *)
(* in flight behind verifyAuth), it makes no store, mail or outbound call, *)
(* and the step that answers it leaves every table, the mails and the      *)
(* outbound posts as they were.                                            *)
C1_Unauthenticated401 == [](C1_Rejected) /\ [][C1_NoEffect]_vars

C1_Witness ==
    /\ Answered /\ resp.status = 401
    /\ resp.req.ep = EpDealsCreate
    /\ resp.req.hdr = "Bearer bad" /\ resp.req.idp = "ok"

(* C2: GET /api/users by an authenticated caller, with no store call       *)
(* failing of itself: answered 403 without a list when the caller has no   *)
(* profile row or a role other than 'admin', and 200 with every profile    *)
(* row when the role is 'admin'.                                           *)
C2_AdminOnlyListing ==
    (Answered /\ resp.req.ep = EpUsers /\ Authenticated(resp.req) /\ ~Faulty(resp.req)) =>
        LET own == RowsById(profiles, resp.req.user.id) IN
        IF \E q \in own : q.role = "admin"
        THEN /\ resp.status = 200
             /\ resp.kind = "profiles"
             /\ {resp.body[i] : i \in DOMAIN resp.body} = profiles
        ELSE /\ resp.status = 403
             /\ resp.kind = "error"

(* C3: the row a 201 of POST /api/deals carries is stored with exactly the *)
(* payload's fields, under an id no other row has; a 200 of GET /api/deals *)
(* lists every stored row once, newest first, and in it every row created  *)
(* by an earlier 201 that was not updated or deleted since.                *)
C3_CreateListRoundTrip ==
    /\ \A d, e \in deals : d.id = e.id => d = e
    /\ (Answered /\ resp.req.ep = EpDealsCreate /\ resp.status = 201) =>
          /\ resp.kind = "row"
          /\ resp.body \in deals
          /\ resp.body.f = resp.req.body
          /\ resp.body \in created
    /\ (Answered /\ resp.req.ep = EpDealsList /\ resp.status = 200) =>
          /\ resp.kind = "rows"
          /\ Len(resp.body) = Cardinality(deals)
          /\ {resp.body[i] : i \in DOMAIN resp.body} = deals
          /\ \A i, j \in DOMAIN resp.body :
                i < j => resp.body[i].created_at >= resp.body[j].created_at
          /\ \A c \in created : \E i \in DOMAIN resp.body :
                /\ resp.body[i].id = c.id
                /\ resp.body[i].f = c.f
                /\ resp.body[i].created_at = c.created_at

C3_Witness ==
    /\ Answered /\ resp.req.ep = EpDealsList /\ resp.status = 200
    /\ Len(resp.body) = 2
    /\ resp.body[1] \in created
    /\ resp.body[1].f = Payload2
    /\ resp.body[1].created_at > resp.body[2].created_at

(* State part of C4: the answer to a delete and the table after it.        *)
C4_Answer ==
    (Answered /\ resp.req.ep = EpDealsDelete /\ Authenticated(resp.req)
              /\ ~Faulty(resp.req)) =>
        /\ resp.status = 200
        /\ resp.kind = "message"
        /\ resp.body = "Deal deleted successfully"
        /\ resp.req.id \notin Ids(deals)

(* Step part of C4: a delete of an id no row has changes no row.           *)
C4_MissingRowNoChange ==
    (resp'.status # 0 /\ resp'.req.ep = EpDealsDelete /\ resp'.req.id \notin Ids(deals))
        => deals' = deals

(* C4: a DELETE /api/deals/:id whose store call does not fail is answered  *)
(* 200 with the fixed message whether or not a row had the id, no row has  *)
(* the id afterwards, and when none had it the table is left as it was: a  *)
(* repeated delete answers the same and changes nothing.                   *)
C4_IdempotentDelete == [](C4_Answer) /\ [][C4_MissingRowNoChange]_vars

C4_Witness ==
    /\ Answered /\ resp.req.ep = EpDealsDelete /\ resp.status = 200
    /\ resp.body = "Deal deleted successfully"
    /\ \E p \in delOk : p[1] = resp.req.id /\ p[2] # resp.req.rid

(* C5: with the SMTP variables unset, an authenticated POST                *)
(* /api/webhook/send-outreach never gets past the transporter check: it is *)
(* answered 503, no mail is sent for it and no log row of it is written.   *)
C5_NoTransport503 ==
    ~smtpEnv =>
        /\ \A q \in reqs : q.ep = EpSendOutreach => q.pc = "handler"
        /\ (Answered /\ resp.req.ep = EpSendOutreach /\ Authenticated(resp.req)) =>
              /\ resp.status = 503
              /\ resp.req.rid \notin mails
              /\ \A i \in LogsOf(resp.req.rid) : logs[i].business_idea_id # resp.req.id

(* The local parts of the users' emails, written out.                      *)
LocalPartOf(email) ==
    IF email = "ann@x@y.io" THEN "ann" ELSE IF email = "bo@z.io" THEN "bo" ELSE email

(* C6: GET /api/user/profile by an authenticated user whose profile read   *)
(* met no row is answered with a profile whose username is the text of the *)
(* email before its first '@' and whose role is 'user', whatever becomes   *)
(* of the insert.                                                          *)
C6_BootstrapProfile ==
    (Answered /\ resp.req.ep = EpProfile /\ Authenticated(resp.req) /\ resp.req.noRow) =>
        /\ resp.status = 200
        /\ resp.kind = "profile"
        /\ resp.body.username = LocalPartOf(resp.req.user.email)
        /\ resp.body.role = "user"

(* WEBHOOK_SECRET holds a secret.                                          *)
SecretConfigured == webhookSecret # Undefined /\ webhookSecret # ""

(* C7: POST /api/webhook/outreach-external with WEBHOOK_SECRET set: a      *)
(* request whose X-Webhook-Secret is missing or different is answered 401  *)
(* before any call, so no log row is written; with the matching header, or *)
(* with no secret set, the request is never answered 401, its log insert   *)
(* is made, and it is answered 200 unless that insert throws.              *)
C7_SharedSecretGate ==
    (Answered /\ resp.req.ep = EpOutreachExternal) =>
        IF SecretConfigured /\ resp.req.secret # webhookSecret
        THEN /\ resp.status = 401
             /\ resp.req.calls = {}
             /\ LogsOf(resp.req.rid) = {}
        ELSE /\ resp.status \in {200, 500}
             /\ \E c \in resp.req.calls : c[1] = "insert webhook_logs"
             /\ resp.status = 500 <=> <<"insert webhook_logs", "throw">> \in resp.req.calls
             /\ <<"insert webhook_logs", "ok">> \in resp.req.calls
                    => Cardinality(LogsOf(resp.req.rid)) = 1

C7_Witness ==
    /\ Answered /\ resp.req.ep = EpOutreachExternal
    /\ webhookSecret = "s3cret" /\ resp.req.secret = Undefined
    /\ resp.status = 401

(* C8: a 200 of GET /api/webhooks carries at most LogLimit entries: all of *)
(* the log when it has no more, else LogLimit distinct rows, none older    *)
(* than a row left out, in descending order of trigger time.               *)
C8_LastFiftyLogs ==
    (Answered /\ resp.req.ep = EpWebhooks /\ resp.status = 200) =>
        LET page == resp.body
            shown == {page[i].log.id : i \in DOMAIN page}
        IN  /\ resp.kind = "logs"
            /\ Len(page) <= LogLimit
            /\ Len(page) = IF Len(logs) < LogLimit THEN Len(logs) ELSE LogLimit
            /\ Cardinality(shown) = Len(page)
            /\ \A i \in DOMAIN page : \E k \in DOMAIN logs : logs[k] = page[i].log
            /\ \A i, j \in DOMAIN page :
                  i < j => page[i].log.triggered_at >= page[j].log.triggered_at
            /\ \A k \in DOMAIN logs : logs[k].id \notin shown =>
                  \A i \in DOMAIN page : page[i].log.triggered_at >= logs[k].triggered_at

C8_Witness ==
    /\ Answered /\ resp.req.ep = EpWebhooks /\ resp.status = 200
    /\ Len(logs) > LogLimit
    /\ Len(resp.body) = LogLimit
    /\ resp.body[1].log.rid # 0

(* The mutating deal routes and the webhook entry points.                  *)
LoggedRoutes ==
    {EpDealsCreate, EpDealsUpdate, EpDealsDelete, EpSendOutreach, EpGoogleForm,
     EpOutreachExternal, EpTriggerOutreach}

(* C9: every request answered 2xx by a mutating deal route or a webhook    *)
(* entry point has exactly one webhook_logs row.                           *)
C9_OneLogRowPerRequest ==
    (Answered /\ resp.req.ep \in LoggedRoutes /\ resp.status \in 200..299) =>
        Cardinality(LogsOf(resp.req.rid)) = 1

(* C10: GET /api/user/profile by an authenticated caller is always         *)
(* answered 2xx with a profile body.                                       *)
C10_ProfileNeverFails ==
    (Answered /\ resp.req.ep = EpProfile /\ Authenticated(resp.req)) =>
        /\ resp.status \in 200..299
        /\ resp.kind = "profile"

(* The deal fetch of the request failed: the call returned an error or    *)
(* threw, or it met no row with the id.                                    *)
FetchFailed(q) ==
    \/ \E c \in q.calls : c[1] = "select business_ideas" /\ c[2] # "ok"
    \/ <<"select business_ideas", "ok">> \in q.calls /\ q.deal = NoDeal

FetchSucceeded(q) == <<"select business_ideas", "ok">> \in q.calls /\ q.deal # NoDeal

(* State part of C11: where a send-outreach handler stands against what it *)
(* has done, and what a failed fetch or send is answered.                  *)
C11_Steps ==
    /\ \A q \in reqs : q.ep = EpSendOutreach =>
          /\ LogsOf(q.rid) = {}
          /\ q.pc \in {"handler", "mail", "log"}
          /\ q.pc = "handler" => q.calls \subseteq {<<"auth.getUser", "ok">>} /\ q.rid \notin mails
          /\ q.pc = "mail" => FetchSucceeded(q) /\ q.rid \notin mails
          /\ q.pc = "log" => FetchSucceeded(q) /\ q.rid \in mails
                                /\ <<"sendMail", "ok">> \in q.calls
    /\ \A i \in DOMAIN logs : (logs[i].action = "send_outreach" /\ logs[i].rid # 0) =>
          logs[i].rid \in mails
    /\ (Answered /\ resp.req.ep = EpSendOutreach) =>
          /\ LogsOf(resp.req.rid) # {} =>
                /\ FetchSucceeded(resp.req)
                /\ <<"sendMail", "ok">> \in resp.req.calls
                /\ \A i \in LogsOf(resp.req.rid) : logs[i].action = "send_outreach"
          /\ FetchFailed(resp.req) =>
                /\ resp.status = 500 /\ resp.kind = "error"
                /\ resp.req.rid \notin mails
                /\ \A c \in resp.req.calls : c[1] \notin {"sendMail", "insert webhook_logs"}
                /\ LogsOf(resp.req.rid) = {}
          /\ (\E c \in resp.req.calls : c[1] = "sendMail" /\ c[2] # "ok") =>
                /\ resp.status = 500 /\ resp.kind = "error"
                /\ \A c \in resp.req.calls : c[1] # "insert webhook_logs"
                /\ LogsOf(resp.req.rid) = {}

(* Step part of C11: a 'send_outreach' row is appended only by a request   *)
(* that stood at its log write, the relay having accepted its mail.        *)
C11_LogLast ==
    (Len(logs') > Len(logs) /\ logs'[Len(logs')].action = "send_outreach") =>
        \E q \in reqs : /\ q.rid = logs'[Len(logs')].rid
                         /\ q.ep = EpSendOutreach /\ q.pc = "log"
                         /\ q.rid \in mails

(* C11: POST /api/webhook/send-outreach runs deal fetch, mail send, log    *)
(* write in this order: the mail is sent only after the fetch returned the *)
(* deal, a 'send_outreach' row is appended only after the relay accepted   *)
(* the mail, and a request whose fetch failed or whose send was refused is *)
(* answered 500, takes no later step and has no log row.                   *)
C11_FetchSendLog == [](C11_Steps) /\ [][C11_LogLast]_vars

C11_Witness ==
    /\ Answered /\ resp.req.ep = EpSendOutreach /\ resp.status = 200
    /\ resp.req.rid \in mails
    /\ \E i \in LogsOf(resp.req.rid) :
          logs[i].action = "send_outreach" /\ logs[i].business_idea_id = resp.req.id

(* The outbound POST of the request was answered with a 2xx status, or it  *)
(* was skipped because the body names no webhookUrl.                       *)
PostDoneOrSkipped(q) ==
    FetchSucceeded(q) /\ (q.url => <<"fetch", "ok">> \in q.calls)

(* C12: POST /api/webhook/trigger-outreach makes its outbound POST exactly *)
(* when the body names a webhookUrl and the deal fetch returned the deal;  *)
(* when the POST is answered with a non-2xx status (or fails otherwise)    *)
(* the request is answered 500 and neither attempts nor has a log row;     *)
(* when the POST succeeded or was skipped the log insert is always made,   *)
(* the request is answered 200 unless that insert throws, and once the     *)
(* store has taken the insert the request has exactly one row, with action *)
(* 'trigger_outreach' and the deal id.                                     *)
C12_TriggerOutreach ==
    /\ \A q \in reqs : q.ep = EpTriggerOutreach =>
          /\ LogsOf(q.rid) = {}
          /\ q.rid \in posts => q.url /\ FetchSucceeded(q)
          /\ q.pc = "post" => q.url /\ FetchSucceeded(q) /\ q.rid \notin posts
          /\ q.pc = "log" => PostDoneOrSkipped(q) /\ (q.url <=> q.rid \in posts)
    /\ (Answered /\ resp.req.ep = EpTriggerOutreach /\ Authenticated(resp.req)) =>
          /\ resp.req.rid \in posts <=> (resp.req.url /\ FetchSucceeded(resp.req))
          /\ (\E c \in resp.req.calls : c[1] = "fetch" /\ c[2] # "ok") =>
                /\ resp.status = 500 /\ resp.kind = "error"
                /\ \A c \in resp.req.calls : c[1] # "insert webhook_logs"
                /\ LogsOf(resp.req.rid) = {}
          /\ PostDoneOrSkipped(resp.req) =>
                /\ \E c \in resp.req.calls : c[1] = "insert webhook_logs"
                /\ resp.status = IF <<"insert webhook_logs", "throw">> \in resp.req.calls
                                 THEN 500 ELSE 200
                /\ <<"insert webhook_logs", "ok">> \in resp.req.calls =>
                      /\ Cardinality(LogsOf(resp.req.rid)) = 1
                      /\ \A i \in LogsOf(resp.req.rid) :
                            /\ logs[i].action = "trigger_outreach"
                            /\ logs[i].business_idea_id = resp.req.id
          /\ ~PostDoneOrSkipped(resp.req) => resp.status = 500 /\ LogsOf(resp.req.rid) = {}

C12_Witness ==
    /\ Answered /\ resp.req.ep = EpTriggerOutreach /\ resp.status = 500
    /\ resp.req.url /\ resp.req.rid \in posts
    /\ <<"fetch", "error">> \in resp.req.calls
    /\ LogsOf(resp.req.rid) = {}

(* The fields with which the form route stores a payload.                  *)
Forced(f, body) ==
    /\ DOMAIN f = DOMAIN body \cup {"source", "stage"}
    /\ f.source = "google_form"
    /\ f.stage = "submitted"
    /\ \A k \in DOMAIN body \ {"source", "stage"} : f[k] = body[k]

InsertFailed(q) == \E c \in q.calls : c[1] = "insert business_ideas" /\ c[2] # "ok"

(* State part of C13: the row a form request inserted and its log row.     *)
C13_Rows ==
    /\ \A q \in reqs : q.ep = EpGoogleForm =>
          /\ q.pc = "log" /\ ~InsertFailed(q)
          /\ Forced(q.deal.f, q.body)
          /\ LogsOf(q.rid) = {}
    /\ (Answered /\ resp.req.ep = EpGoogleForm) =>
          /\ InsertFailed(resp.req) =>
                /\ resp.status = 500 /\ resp.kind = "error"
                /\ resp.req.deal = NoDeal
                /\ LogsOf(resp.req.rid) = {}
          /\ resp.status = 201 =>
                /\ resp.kind = "form"
                /\ resp.body = resp.req.deal
                /\ Forced(resp.body.f, resp.req.body)
          /\ \A i \in LogsOf(resp.req.rid) :
                /\ logs[i].action = "form_submission"
                /\ logs[i].business_idea_id = resp.req.deal.id
                /\ resp.req.deal # NoDeal
          /\ <<"insert webhook_logs", "ok">> \in resp.req.calls =>
                Cardinality(LogsOf(resp.req.rid)) = 1

(* Step part of C13: the step in which a form request arrives stores       *)
(* exactly its row, under a new id, or on a failed insert no row at all;   *)
(* the log row follows in a later step.                                    *)
C13_Insert ==
    /\ \A q \in reqs' \ reqs : q.ep = EpGoogleForm =>
          /\ deals' = deals \cup {q.deal}
          /\ q.deal.id \notin Ids(deals)
          /\ logs' = logs
    /\ (resp'.status # 0 /\ resp'.req.ep = EpGoogleForm /\ InsertFailed(resp'.req)) =>
          deals' = deals /\ logs' = logs

(* C13: every row POST /api/webhook/google-form inserts has source         *)
(* 'google_form' and stage 'submitted' whatever the payload says, and the  *)
(* payload's other fields as given; the log row written afterwards has     *)
(* action 'form_submission' and the id of that row; a failed deal insert   *)
(* is answered 500 with neither a deal nor a log row written.              *)
C13_FormSubmission == [](C13_Rows) /\ [][C13_Insert]_vars

C13_Witness ==
    /\ Answered /\ resp.req.ep = EpGoogleForm /\ resp.status = 201
    /\ resp.req.body = Payload2
    /\ resp.body.f.stage = "submitted" /\ resp.body.f.business_name = "Bolt"
    /\ \E i \in LogsOf(resp.req.rid) : logs[i].business_idea_id = resp.body.id

(* The statuses and the body of an error response.                         *)
ErrorStatuses == {401, 403, 500, 503}

(* C14: no error leaves its handler: no request is left without a response *)
(* by an error that escaped (every request in flight stands at an await of *)
(* its handler, from which it will be answered), and a response that       *)
(* reports an error is a JSON {error: message} body with status 401, 403,  *)
(* 500 or 503.                                                             *)
C14_ErrorsCaught ==
    /\ \A q \in reqs : q.pc # "unhandled"
    /\ Answered =>
          /\ resp.status \in {200, 201} \cup ErrorStatuses
          /\ resp.status \in ErrorStatuses <=> resp.kind = "error"

(* The PUTs applied to the row with this id, as positions of puts.         *)
PutsOn(id) == {i \in DOMAIN puts : puts[i].id = id}

(* The value last written to field k of the deal that exists from the      *)
(* start: that of the latest PUT whose body names k, else the first value. *)
LastWritten(k) ==
    LET w == {i \in PutsOn(Deal1.id) : k \in DOMAIN puts[i].body}
    IN  IF w = {} THEN Deal1.f[k]
        ELSE puts[CHOOSE i \in w : \A j \in w : j <= i].body[k]

(* State part of C15: a PUT on an existing row succeeds with its values,   *)
(* and every field of the row holds the value last written to it.          *)
C15_LastWriteWins ==
    /\ (Answered /\ resp.req.ep = EpDealsUpdate /\ Authenticated(resp.req)
                 /\ ~Faulty(resp.req) /\ resp.req.id \in Ids(deals)) =>
          /\ resp.status = 200 /\ resp.kind = "row"
          /\ resp.body \in deals /\ resp.body.id = resp.req.id
          /\ \A k \in DOMAIN resp.req.body : resp.body.f[k] = resp.req.body[k]
          /\ puts # <<>> /\ puts[Len(puts)].rid = resp.req.rid
    /\ \A d \in deals : d.id = Deal1.id =>
          /\ DOMAIN d.f = DOMAIN Deal1.f \cup UNION {DOMAIN puts[i].body : i \in PutsOn(d.id)}
          /\ \A k \in DOMAIN d.f : d.f[k] = LastWritten(k)
          /\ d.created_at = Deal1.created_at

(* Step part of C15: a PUT changes no row but the one with its id, and     *)
(* neither adds nor removes a row.                                         *)
C15_OneRow ==
    (resp'.status # 0 /\ resp'.req.ep = EpDealsUpdate) =>
        /\ {d \in deals' : d.id # resp'.req.id} = {d \in deals : d.id # resp'.req.id}
        /\ Ids(deals') = Ids(deals)

(* C15: PUT /api/deals/:id requests in flight together on one existing id  *)
(* do not fail each other: each whose store call does not fail is answered *)
(* 200 and is one merge at the store; in every interleaving the row ends   *)
(* as the merges applied one after the other in the order the store took   *)
(* them, each field holding the value of the last merge that names it, and *)
(* no other row changes.                                                   *)
C15_ConcurrentUpdates == [](C15_LastWriteWins) /\ [][C15_OneRow]_vars

C15_Witness ==
    /\ Answered /\ resp.req.ep = EpDealsUpdate /\ resp.status = 200
    /\ resp.req.rid \in racing
    /\ Len(puts) = 2
    /\ puts[1].rid = 2 /\ puts[2].rid = 1
    /\ puts[1].body = Payload2 /\ puts[2].body = Patch1
    /\ resp.body.f.stage = "contacted" /\ resp.body.f.business_name = "Bolt"

(* Sequence s is the beginning of sequence t.                              *)
IsPrefix(s, t) == Len(s) <= Len(t) /\ SubSeq(t, 1, Len(s)) = s

(* C16: every step leaves each webhook_logs row as and where it was, new   *)
(* rows only following them (so the log of a later state extends that of   *)
(* an earlier one, also across the delete of a deal that rows refer to),   *)
(* and leaves each user_profiles row in the table unchanged.               *)
C16_AppendOnly == [][IsPrefix(logs, logs') /\ profiles \subseteq profiles']_vars

C16_Witness ==
    /\ Answered /\ resp.req.ep = EpDealsDelete /\ resp.status = 200
    /\ resp.req.id \notin Ids(deals)
    /\ \E i \in DOMAIN logs : logs[i].rid # 0 /\ logs[i].business_idea_id = resp.req.id
    /\ \E i \in DOMAIN logs : logs[i].rid = 0 /\ logs[i].business_idea_id = resp.req.id

(* The profile request of a user who had no profile row when the server    *)
(* started, in flight together with another one of the same user.          *)
RacingNewUser(q) ==
    /\ q.ep = EpProfile /\ Authenticated(q)
    /\ q.user.id \notin {AdminProfile.id, OddProfile.id}
    /\ q.rid \in racing

(* C17: when GET /api/user/profile requests of one user without a profile  *)
(* are in flight together, user_profiles never holds two rows with one id, *)
(* every one of them is answered with a profile whose role is 'user' and   *)
(* whose username is the local part of the user's email, and no row is     *)
(* created with another role.                                              *)
C17_ConcurrentBootstrap ==
    /\ \A p, q \in profiles : p.id = q.id => p = q
    /\ \A p \in profiles \ {AdminProfile, OddProfile} : p.role = "user"
    /\ (Answered /\ RacingNewUser(resp.req)) =>
          /\ resp.status = 200
          /\ resp.kind = "profile"
          /\ resp.body.id = resp.req.user.id
          /\ resp.body.role = "user"
          /\ resp.body.username = LocalPartOf(resp.req.user.email)

====
